---- MODULE Spec2Model ----
(***************************************************************************)
(* Model of the inline-annotation tokenizer of vscode-markdown-extended    *)
(* (src/src/plugin/markdownItSidenote.ts): the notes tokenizer (++ref|n++, *)
(* !!ref|n!!), the sidebar tokenizer ($c$, @c@), the bounded search for    *)
(* the closing marker, the sub-parser bridge with its per-session depth    *)
(* counter, and the token emitters, driven by the host's rule chain.       *)
(*                                                                         *)
(* Source text is a sequence of one-character strings.  Positions are      *)
(* 0-based as in the code; sequence indices are position + 1.              *)
(***************************************************************************)
EXTENDS Integers, Sequences, FiniteSets, TLC

VARIABLES state, parseDepthMap, last, hostError, extension

vars == <<state, parseDepthMap, last, hostError, extension>>

(***************************************************************************)
(* Bounds of the model                                                     *)
(***************************************************************************)
\* longest source drawn exhaustively from the alphabet
MaxLen == 2
\* longest reference/body span drawn exhaustively inside one annotation
MaxSpan == 2
\* deepest nesting of generated annotations inside annotations
MaxNest == 2
\* by how much the host may have narrowed posMax below the source length
MaxNarrow == 1
\* number of documents parsed back-to-back with the same installed plugin
MaxSessions == 2
\* latest push of a tokenizer call that may be made to raise (counted from 0)
MaxPushFault == 7
\* latest parseInline call of a tokenizer call that may be made to raise
MaxParseFault == 1
\* number of ExtensionContext objects constructed in one run of the extension host
MaxInstances == 3

(***************************************************************************)
(* Program constants                                                       *)
(***************************************************************************)
MAX_PARSE_DEPTH == 3
SEARCH_LIMIT == 1000

SN_TOKEN == "+"
MN_TOKEN == "!"
TOKEN_PIPE == "|"
LEFT_SIDEBAR_TOKEN == "$"
RIGHT_SIDEBAR_TOKEN == "@"

\* findClosingMarker's "not found" (null) and indexOf's -1
NULL == -1

marginNoteConfig ==
  [type |-> "marginal_note", openMarker |-> <<MN_TOKEN, MN_TOKEN>>,
   openMarkerCode |-> MN_TOKEN, closeMarker |-> <<MN_TOKEN, MN_TOKEN>>,
   cssClass |-> "mnote", refClass |-> "mn-ref"]

sideNoteConfig ==
  [type |-> "sidenote", openMarker |-> <<SN_TOKEN, SN_TOKEN>>,
   openMarkerCode |-> SN_TOKEN, closeMarker |-> <<SN_TOKEN, SN_TOKEN>>,
   cssClass |-> "sidenote", refClass |-> "sn-ref"]

leftSidebarConfig ==
  [type |-> "left_sidebar", openMarker |-> <<LEFT_SIDEBAR_TOKEN>>,
   openMarkerCode |-> LEFT_SIDEBAR_TOKEN, closeMarker |-> <<LEFT_SIDEBAR_TOKEN>>,
   cssClass |-> "left-sidebar"]

rightSidebarConfig ==
  [type |-> "right_sidebar", openMarker |-> <<RIGHT_SIDEBAR_TOKEN>>,
   openMarkerCode |-> RIGHT_SIDEBAR_TOKEN, closeMarker |-> <<RIGHT_SIDEBAR_TOKEN>>,
   cssClass |-> "right-sidebar"]

(***************************************************************************)
(* String primitives of the language runtime, as the code uses them        *)
(***************************************************************************)
Min(a, b) == IF a < b THEN a ELSE b

Max(a, b) == IF a > b THEN a ELSE b

Least(S) == CHOOSE i \in S : \A j \in S : i <= j

Greatest(S) == CHOOSE i \in S : \A j \in S : i >= j

\* src.charCodeAt(i): NaN outside the string
CharCodeAt(src, i) == IF i >= 0 /\ i < Len(src) THEN src[i + 1] ELSE "NaN"

\* src.slice(a, b) for 0 <= a: the characters at positions a .. b-1
Slice(src, a, b) ==
  IF a >= Min(b, Len(src)) THEN <<>> ELSE SubSeq(src, a + 1, Min(b, Len(src)))

\* whether marker occurs in src at position i
OccursAt(src, marker, i) ==
  /\ i >= 0
  /\ i + Len(marker) <= Len(src)
  /\ \A k \in 1..Len(marker) : src[i + k] = marker[k]

FirstOf(hits) == IF hits = {} THEN -1 ELSE Least(hits)

\* src.indexOf(marker, from): first position >= from where marker occurs, or -1
IndexOf(src, marker, from) ==
  FirstOf({i \in from..(Len(src) - Len(marker)) : OccursAt(src, marker, i)})

Between(s, solid) ==
  IF solid = {} THEN <<>> ELSE SubSeq(s, Least(solid), Greatest(solid))

\* s.trim()
Trim(s) == Between(s, {i \in 1..Len(s) : s[i] # " "})

(***************************************************************************)
(* The parse session as the tokenizers see it.  A session record st holds  *)
(*   src, pos, posMax, tokens : the host's inline state (MarkdownItState)  *)
(*   pending   : the last token is the host's still-open run of plain text *)
(*   id, level : identity of the state object (the key of parseDepthMap)   *)
(*               and how deeply nested its fragment parse is (0 = document)*)
(*   depthMap  : the module-level parseDepthMap                            *)
(*   thrown    : an exception is in flight (statements are skipped until   *)
(*               a catch clears it)                                        *)
(*   bridge    : number of md.parseInline calls made for this session      *)
(*   nest      : longest chain of nested fragment parses below it          *)
(*   peak      : highest value a counter of parseDepthMap was raised to    *)
(*   pushLeft, parseLeft : number of push / parseInline calls that still   *)
(*               succeed before one raises (-1: none ever raises)          *)
(*   fired     : which of the two has raised ("push", "parse")             *)
(***************************************************************************)
Token(type, tag, nesting) ==
  [type |-> type, tag |-> tag, nesting |-> nesting, content |-> <<>>, markup |-> <<>>]

\* state.push(type, tag, nesting): append one token to the stream
Push(st, type, tag, nesting) ==
  IF st.thrown THEN st
  ELSE IF st.pushLeft = 0
  THEN [st EXCEPT !.thrown = TRUE, !.pushLeft = -1, !.fired = @ \cup {"push"}]
  ELSE [st EXCEPT !.tokens = Append(@, Token(type, tag, nesting)),
                  !.pending = FALSE,
                  !.pushLeft = IF @ > 0 THEN @ - 1 ELSE @]

\* handle.content = c on the token just pushed
SetContent(st, c) ==
  IF st.thrown THEN st
  ELSE [st EXCEPT !.tokens[Len(st.tokens)].content = c]

\* handle.markup = m on the token just pushed
SetMarkup(st, m) ==
  IF st.thrown THEN st
  ELSE [st EXCEPT !.tokens[Len(st.tokens)].markup = m]

\* const t = state.push('text', '', 0); t.content = content
PushText(st, content) == SetContent(Push(st, "text", "", 0), content)

getParseDepth(st) ==
  IF st.id \in DOMAIN st.depthMap THEN st.depthMap[st.id] ELSE 0

MapSet(map, key, value) ==
  [k \in (DOMAIN map) \cup {key} |-> IF k = key THEN value ELSE map[k]]

\* faulty variant: one counter shared by all state objects
incrementParseDepth_shared(st) ==
  [st EXCEPT !.depthMap = [k \in (DOMAIN @) \cup {st.id} |->
                             IF k \in DOMAIN @ THEN @[k] + 1 ELSE 1]]

incrementParseDepth(st) ==
  [st EXCEPT !.depthMap = MapSet(@, st.id, getParseDepth(st) + 1)]

\* faulty variant: the counter is never taken back
decrementParseDepth_kept(st) == st

\* faulty variant: the test is current > 1, so a counter at 1 stays there
decrementParseDepth_aboveOne(st) ==
  IF getParseDepth(st) > 1
  THEN [st EXCEPT !.depthMap = MapSet(@, st.id, getParseDepth(st) - 1)]
  ELSE st

decrementParseDepth(st) ==
  IF getParseDepth(st) > 0
  THEN [st EXCEPT !.depthMap = MapSet(@, st.id, getParseDepth(st) - 1)]
  ELSE st

(***************************************************************************)
(* Sub-parser bridge                                                       *)
(***************************************************************************)
\* faulty variant: only the content of the child is copied
CopyFields_contentOnly(st, token) == SetContent(st, token.content)

\* copy every field of the child except type, tag and nesting
CopyFields(st, token) == SetMarkup(SetContent(st, token.content), token.markup)

\* tokens[0].children.forEach: push each child and copy its other fields
RECURSIVE TransferChildren(_, _, _)
TransferChildren(st, children, i) ==
  IF st.thrown \/ i > Len(children) THEN st
  ELSE TransferChildren(
         CopyFields(Push(st, children[i].type, children[i].tag, children[i].nesting),
                    children[i]),
         children, i + 1)

RECURSIVE ParseInline(_, _)

\* the session once md.parseInline has returned parsed
Returned(called, parsed) ==
  [called EXCEPT !.depthMap = parsed.depthMap,
                 !.nest = Max(@, 1 + parsed.nest),
                 !.peak = Max(@, parsed.peak),
                 !.parseLeft = IF @ > 0 THEN @ - 1 ELSE @,
                 !.thrown = parsed.thrown]

\* faulty variant: the fragment was parsed in place, the session's own source,
\* cursor and scan bound set to the span and left there
Splice_inPlace(called, parsed, content) ==
  IF parsed.thrown THEN Returned(called, parsed)
  ELSE [TransferChildren(Returned(called, parsed), parsed.tokens[1].children, 1) EXCEPT
          !.src = content, !.pos = Len(content), !.posMax = Len(content)]

\* the body of the try block from the return of parseInline on
Splice(called, parsed, content) ==
  IF parsed.thrown THEN Returned(called, parsed)
  ELSE IF Len(parsed.tokens) > 0
  THEN TransferChildren(Returned(called, parsed), parsed.tokens[1].children, 1)
  ELSE PushText(Returned(called, parsed), content)

\* the try block: the fragment parse and the transfer of its children
TryParse(called, content) ==
  IF called.parseLeft = 0
  THEN [called EXCEPT !.thrown = TRUE, !.parseLeft = -1, !.fired = @ \cup {"parse"}]
  ELSE Splice(called, ParseInline(content, called), content)

\* faulty variant: the counter is decremented at the end of the try block,
\* so not when the block raised
Finally_onSuccess(tried) ==
  IF tried.thrown THEN tried ELSE decrementParseDepth(tried)

\* the finally block: the counter is decremented whether or not tried raised
Finally(tried) ==
  IF tried.thrown
  THEN [decrementParseDepth([tried EXCEPT !.thrown = FALSE]) EXCEPT !.thrown = TRUE]
  ELSE decrementParseDepth(tried)

\* the session as the try block is entered, the counter just incremented
Entered(raised) ==
  [raised EXCEPT !.bridge = @ + 1, !.peak = Max(@, getParseDepth(raised))]

\* faulty variant: empty content is handed to the fragment parser like any other
processTextWithMarkdown_noEmptyCase(st, content) ==
  CASE st.thrown -> st
    [] ~st.thrown /\ getParseDepth(st) >= MAX_PARSE_DEPTH -> PushText(st, content)
    [] OTHER -> Finally(TryParse(Entered(incrementParseDepth(st)), content))

\* faulty variant: the depth of the session is not looked at
processTextWithMarkdown_unlimited(st, content) ==
  CASE st.thrown -> st
    [] ~st.thrown /\ Len(content) = 0 -> PushText(st, <<>>)
    [] OTHER -> Finally(TryParse(Entered(incrementParseDepth(st)), content))

processTextWithMarkdown(st, content) ==
  CASE st.thrown -> st
    [] ~st.thrown /\ Len(content) = 0 -> PushText(st, <<>>)
    [] ~st.thrown /\ Len(content) # 0 /\ getParseDepth(st) >= MAX_PARSE_DEPTH ->
         PushText(st, content)
    [] OTHER -> Finally(TryParse(Entered(incrementParseDepth(st)), content))

\* faulty variant: processContentSafely lets the exception through
FallbackText_rethrown(tried, content) == tried

\* the catch clause of processContentSafely
FallbackText(tried, content) ==
  IF tried.thrown THEN PushText([tried EXCEPT !.thrown = FALSE], content) ELSE tried

processContentSafely(st, content) ==
  IF st.thrown THEN st
  ELSE FallbackText(processTextWithMarkdown(st, content), content)

(***************************************************************************)
(* Token emitters                                                          *)
(***************************************************************************)
\* faulty variant: a sidebar is split at '|' like a note and only the part
\* after it is its body
createSidebarTokens_split(st, content, config) ==
  Push(processContentSafely(
         SetMarkup(Push(st, config.type \o "_open", "span", 1), config.openMarker),
         IF IndexOf(content, <<TOKEN_PIPE>>, 0) = -1 THEN content
         ELSE Slice(content, IndexOf(content, <<TOKEN_PIPE>>, 0) + 1, Len(content))),
       config.type \o "_close", "span", -1)

createSidebarTokens(st, content, config) ==
  Push(processContentSafely(
         SetMarkup(Push(st, config.type \o "_open", "span", 1), config.openMarker),
         content),
       config.type \o "_close", "span", -1)

\* faulty variant: the catch clause takes the token pushed last off the list
\* before it pushes the text
EmergencyText_rollback(tried, text, note) ==
  IF tried.thrown
  THEN PushText([tried EXCEPT !.thrown = FALSE, !.tokens = SubSeq(@, 1, Len(@) - 1)],
                text \o <<TOKEN_PIPE>> \o note)
  ELSE tried

\* the catch clause of createNoteTokens
EmergencyText(tried, text, note) ==
  IF tried.thrown
  THEN PushText([tried EXCEPT !.thrown = FALSE], text \o <<TOKEN_PIPE>> \o note)
  ELSE tried

\* faulty variant: the reference is closed before its children are emitted
NoteRef_closedEarly(st, text, config) ==
  processContentSafely(
    Push(Push(st, config.type \o "_ref_open", "", 1), config.type \o "_ref_close", "", -1),
    text)

NoteRef(st, text, config) ==
  Push(processContentSafely(Push(st, config.type \o "_ref_open", "", 1), text),
       config.type \o "_ref_close", "", -1)

\* faulty variant: the note content section is never closed
NoteContent_unclosed(st, note, config) ==
  processContentSafely(Push(st, config.type \o "_content_open", "span", 1), note)

NoteContent(st, note, config) ==
  Push(processContentSafely(Push(st, config.type \o "_content_open", "span", 1), note),
       config.type \o "_content_close", "span", -1)

createNoteTokens(st, text, note, config) ==
  EmergencyText(
    Push(NoteContent(
           NoteRef(SetMarkup(Push(st, config.type \o "_open", "span", 1), config.openMarker),
                   text, config),
           note, config),
         config.type \o "_close", "span", -1),
    text, note)

(***************************************************************************)
(* Extraction                                                              *)
(***************************************************************************)
\* faulty variant: the reference is not trimmed before it is tested
SplitAt_untrimmed(content, pipePos) ==
  IF pipePos = -1 THEN [ok |-> FALSE, text |-> <<>>, note |-> <<>>]
  ELSE IF Len(Slice(content, 0, pipePos)) = 0
  THEN [ok |-> FALSE, text |-> <<>>, note |-> <<>>]
  ELSE [ok |-> TRUE, text |-> Slice(content, 0, pipePos),
        note |-> Slice(content, pipePos + 1, Len(content))]

\* faulty variant: the body ends at the second separator, as the second piece
\* of content.split('|') does
SplitAt_secondPiece(content, pipePos) ==
  IF pipePos = -1 THEN [ok |-> FALSE, text |-> <<>>, note |-> <<>>]
  ELSE IF Len(Trim(Slice(content, 0, pipePos))) = 0
  THEN [ok |-> FALSE, text |-> <<>>, note |-> <<>>]
  ELSE [ok |-> TRUE, text |-> Slice(content, 0, pipePos),
        note |-> Slice(content, pipePos + 1,
                       IF IndexOf(content, <<TOKEN_PIPE>>, pipePos + 1) = -1
                       THEN Len(content)
                       ELSE IndexOf(content, <<TOKEN_PIPE>>, pipePos + 1))]

\* the result null is the record with ok = FALSE
SplitAt(content, pipePos) ==
  IF pipePos = -1 THEN [ok |-> FALSE, text |-> <<>>, note |-> <<>>]
  ELSE IF Len(Trim(Slice(content, 0, pipePos))) = 0
  THEN [ok |-> FALSE, text |-> <<>>, note |-> <<>>]
  ELSE [ok |-> TRUE, text |-> Slice(content, 0, pipePos),
        note |-> Slice(content, pipePos + 1, Len(content))]

validateNoteContent(content) == SplitAt(content, IndexOf(content, <<TOKEN_PIPE>>, 0))

Absolute(startPos, relativePos) ==
  IF relativePos = -1 THEN NULL ELSE startPos + relativePos

\* faulty variant: an annotation that is not closed runs to the end of the text
findClosingMarker_toEnd(src, startPos, marker, maxSearch) ==
  IF IndexOf(Slice(src, startPos, Min(Len(src), startPos + maxSearch)), marker, 0) = -1
  THEN Len(src)
  ELSE startPos + IndexOf(Slice(src, startPos, Min(Len(src), startPos + maxSearch)), marker, 0)

\* faulty variant: the last closing marker of the search region is taken, as
\* lastIndexOf does
findClosingMarker_last(src, startPos, marker, maxSearch) ==
  IF IndexOf(Slice(src, startPos, Min(Len(src), startPos + maxSearch)), marker, 0) = -1
  THEN NULL
  ELSE Greatest({i \in startPos..(Min(Len(src), startPos + maxSearch) - Len(marker)) :
                   OccursAt(src, marker, i)})

findClosingMarker(src, startPos, marker, maxSearch) ==
  Absolute(startPos,
           IndexOf(Slice(src, startPos, Min(Len(src), startPos + maxSearch)), marker, 0))

(***************************************************************************)
(* The tokenizers.  A call yields [ret, st, endPos, type]: the value       *)
(* returned, the session afterwards (st.thrown: the call raised instead of *)
(* returning), the position found for the closing marker (NULL if the call *)
(* did not get that far) and the annotation kind detected ("none" if the   *)
(* detector rejected).                                                     *)
(***************************************************************************)
Outcome(ret, st, endPos, type) ==
  [ret |-> ret /\ ~st.thrown, st |-> st, endPos |-> endPos, type |-> type]

\* faulty variant: the cursor is left on the closing marker, not after it
Commit_onMarker(emitted, newPos, endPos, type) ==
  IF emitted.thrown THEN Outcome(FALSE, emitted, endPos, type)
  ELSE Outcome(TRUE, [emitted EXCEPT !.pos = endPos], endPos, type)

\* the tokens are created, then state.pos is set past the closing marker
Commit(emitted, newPos, endPos, type) ==
  IF emitted.thrown THEN Outcome(FALSE, emitted, endPos, type)
  ELSE Outcome(TRUE, [emitted EXCEPT !.pos = newPos], endPos, type)

\* faulty variant: a rejected note is consumed all the same
processValidated_consuming(st, silent, config, endPos, validated) ==
  CASE ~validated.ok -> Outcome(FALSE, [st EXCEPT !.pos = endPos + 2], endPos, config.type)
    [] validated.ok /\ silent -> Outcome(TRUE, st, endPos, config.type)
    [] OTHER -> Commit(createNoteTokens(st, validated.text, validated.note, config),
                       endPos + 2, endPos, config.type)

\* processNote from the validation of the extracted content on
processValidated(st, silent, config, endPos, validated) ==
  CASE ~validated.ok -> Outcome(FALSE, st, endPos, config.type)
    [] validated.ok /\ silent -> Outcome(TRUE, st, endPos, config.type)
    [] OTHER -> Commit(createNoteTokens(st, validated.text, validated.note, config),
                       endPos + 2, endPos, config.type)

\* faulty variant: silent mode answers as soon as the closing marker is found,
\* before the content is validated
processFound_silentEarly(st, silent, start, config, endPos) ==
  IF endPos = NULL THEN Outcome(FALSE, st, NULL, config.type)
  ELSE IF silent THEN Outcome(TRUE, st, endPos, config.type)
  ELSE processValidated(st, silent, config, endPos,
                        validateNoteContent(Slice(st.src, start + 2, endPos)))

\* processNote from the result of the search for the closing marker on
processFound(st, silent, start, config, endPos) ==
  IF endPos = NULL THEN Outcome(FALSE, st, NULL, config.type)
  ELSE processValidated(st, silent, config, endPos,
                        validateNoteContent(Slice(st.src, start + 2, endPos)))

\* faulty variant: an opening marker that lies across the scan bound is
\* reported as a match
processNote_acrossBound(st, silent, start, config) ==
  IF start + 2 > st.posMax THEN Outcome(TRUE, st, NULL, config.type)
  ELSE IF start + 2 >= st.posMax THEN Outcome(FALSE, st, NULL, config.type)
  ELSE processFound(st, silent, start, config,
                    findClosingMarker(st.src, start + 2, config.closeMarker, SEARCH_LIMIT))

processNote(st, silent, start, config) ==
  IF start + 2 >= st.posMax THEN Outcome(FALSE, st, NULL, config.type)
  ELSE processFound(st, silent, start, config,
                    findClosingMarker(st.src, start + 2, config.closeMarker, SEARCH_LIMIT))

\* faulty variant: the kind is chosen by the first character alone
notesTokenizer_firstChar(st, silent) ==
  CASE CharCodeAt(st.src, st.pos) = sideNoteConfig.openMarkerCode ->
         processNote(st, silent, st.pos, sideNoteConfig)
    [] CharCodeAt(st.src, st.pos) = marginNoteConfig.openMarkerCode ->
         processNote(st, silent, st.pos, marginNoteConfig)
    [] OTHER -> Outcome(FALSE, st, NULL, "none")

notesTokenizer(st, silent) ==
  CASE /\ CharCodeAt(st.src, st.pos) # sideNoteConfig.openMarkerCode
       /\ CharCodeAt(st.src, st.pos) # marginNoteConfig.openMarkerCode ->
         Outcome(FALSE, st, NULL, "none")
    [] /\ CharCodeAt(st.src, st.pos) = sideNoteConfig.openMarkerCode
       /\ CharCodeAt(st.src, st.pos + 1) = sideNoteConfig.openMarkerCode ->
         processNote(st, silent, st.pos, sideNoteConfig)
    [] /\ CharCodeAt(st.src, st.pos) = marginNoteConfig.openMarkerCode
       /\ CharCodeAt(st.src, st.pos + 1) = marginNoteConfig.openMarkerCode ->
         processNote(st, silent, st.pos, marginNoteConfig)
    [] OTHER -> Outcome(FALSE, st, NULL, "none")

\* faulty variant: silent mode is not looked at
sidebarFound_eager(st, silent, start, config, endPos) ==
  IF endPos = -1 THEN Outcome(FALSE, st, NULL, config.type)
  ELSE Commit(createSidebarTokens(st, Slice(st.src, start + 1, endPos), config),
              endPos + 1, endPos, config.type)

\* sidebarTokenizer from the result of the search for the closing marker on
sidebarFound(st, silent, start, config, endPos) ==
  CASE endPos = -1 -> Outcome(FALSE, st, NULL, config.type)
    [] endPos # -1 /\ silent -> Outcome(TRUE, st, endPos, config.type)
    [] OTHER -> Commit(createSidebarTokens(st, Slice(st.src, start + 1, endPos), config),
                       endPos + 1, endPos, config.type)

\* sidebarTokenizer once the kind is detected
sidebarDetected(st, silent, start, config) ==
  IF start + 1 >= st.posMax THEN Outcome(FALSE, st, NULL, config.type)
  ELSE sidebarFound(st, silent, start, config,
                    IndexOf(st.src, config.closeMarker, start + 1))

sidebarTokenizer(st, silent) ==
  CASE /\ CharCodeAt(st.src, st.pos) # LEFT_SIDEBAR_TOKEN
       /\ CharCodeAt(st.src, st.pos) # RIGHT_SIDEBAR_TOKEN ->
         Outcome(FALSE, st, NULL, "none")
    [] CharCodeAt(st.src, st.pos) = LEFT_SIDEBAR_TOKEN ->
         sidebarDetected(st, silent, st.pos, leftSidebarConfig)
    [] OTHER -> sidebarDetected(st, silent, st.pos, rightSidebarConfig)

(***************************************************************************)
(* The host's inline parser, at the interface the plugin uses: the rule    *)
(* chain tried at the cursor (the built-in text rule first, then notes,    *)
(* then sidebars), plain text for whatever no rule takes, and the fragment *)
(* parse md.parseInline, which runs the same chain on a state of its own.  *)
(***************************************************************************)
\* characters at which the host's text rule stops and the other rules are tried
isTerminatorChar(ch) ==
  ch \in {SN_TOKEN, MN_TOKEN, LEFT_SIDEBAR_TOKEN, RIGHT_SIDEBAR_TOKEN}

NextStop(st, stops) == IF stops = {} THEN st.posMax ELSE Least(stops)

\* end of the plain text the host takes at the cursor: a run of ordinary
\* characters up to the next terminator, or the one terminator no rule took
TextEnd(st) ==
  IF isTerminatorChar(CharCodeAt(st.src, st.pos)) THEN st.pos + 1
  ELSE NextStop(st, {i \in st.pos..(st.posMax - 1) :
                       isTerminatorChar(CharCodeAt(st.src, i))})

\* the host adds the text up to end to its pending run, kept as the last token
TakeText(st, end) ==
  [st EXCEPT
     !.tokens = IF st.pending
                THEN [@ EXCEPT ![Len(st.tokens)].content = @ \o Slice(st.src, st.pos, end)]
                ELSE Append(@, [Token("text", "", 0) EXCEPT
                                  !.content = Slice(st.src, st.pos, end)]),
     !.pending = TRUE,
     !.pos = end]

HostText(st) == TakeText(st, TextEnd(st))

AfterSidebars(st, s) == IF s.ret \/ s.st.thrown THEN s.st ELSE HostText(st)

AfterNotes(st, n) ==
  IF n.ret \/ n.st.thrown THEN n.st
  ELSE AfterSidebars(st, sidebarTokenizer(st, FALSE))

\* one round of the host's tokenize loop
HostStep(st) ==
  IF ~isTerminatorChar(CharCodeAt(st.src, st.pos)) THEN HostText(st)
  ELSE AfterNotes(st, notesTokenizer(st, FALSE))

RECURSIVE HostTokenize(_)
HostTokenize(st) ==
  IF st.thrown \/ st.pos >= st.posMax THEN st
  ELSE HostTokenize(HostStep(st))

\* the state object a fragment parse creates for itself
FreshState(content, parent) ==
  [src |-> content, pos |-> 0, posMax |-> Len(content), tokens |-> <<>>,
   pending |-> FALSE, id |-> 0 - (parent.level + 1), level |-> parent.level + 1,
   depthMap |-> parent.depthMap, thrown |-> FALSE, bridge |-> 0, nest |-> 0,
   peak |-> 0, pushLeft |-> -1, parseLeft |-> -1, fired |-> {}]

\* what parseInline hands back: one inline token holding the children.  The
\* nested state object is unreachable afterwards, so its parseDepthMap entry
\* (a weak key) goes with it.
Fragment(parent, done) ==
  [thrown |-> done.thrown,
   tokens |-> <<[type |-> "inline", children |-> done.tokens]>>,
   nest |-> done.nest,
   peak |-> done.peak,
   depthMap |-> [k \in DOMAIN parent.depthMap |-> done.depthMap[k]]]

\* md.parseInline(content, env)
ParseInline(content, parent) ==
  Fragment(parent, HostTokenize(FreshState(content, parent)))

(***************************************************************************)
(* Renderer rules: md.renderer.rules as a function from token types to the *)
(* HTML each rule returns.                                                 *)
(***************************************************************************)
SpanOpen(class) == "<span class=\"" \o class \o "\">"

SpanClose == "</span>"

\* faulty variant: the content wrapper of a note is never closed
NoteRules_contentOpen(config) ==
  [t \in {config.type \o part :
            part \in {"_open", "_ref_open", "_ref_close",
                      "_content_open", "_content_close", "_close"}} |->
     CASE t = config.type \o "_open" -> SpanOpen(config.refClass)
       [] t = config.type \o "_content_open" -> SpanOpen(config.cssClass)
       [] t = config.type \o "_close" -> SpanClose
       [] OTHER -> ""]

\* the six rules of a note kind
NoteRules(config) ==
  [t \in {config.type \o part :
            part \in {"_open", "_ref_open", "_ref_close",
                      "_content_open", "_content_close", "_close"}} |->
     CASE t = config.type \o "_open" -> SpanOpen(config.refClass)
       [] t = config.type \o "_content_open" -> SpanOpen(config.cssClass)
       [] t \in {config.type \o "_content_close", config.type \o "_close"} -> SpanClose
       [] OTHER -> ""]

\* the two rules of a sidebar kind
SidebarRules(config) ==
  [t \in {config.type \o "_open", config.type \o "_close"} |->
     IF t = config.type \o "_open" THEN SpanOpen(config.cssClass) ELSE SpanClose]

\* md.renderer.rules after registerRendererRules(md, config)
registerRendererRules(rules, config) ==
  IF "refClass" \in DOMAIN config
  THEN NoteRules(config) @@ rules
  ELSE SidebarRules(config) @@ rules

\* md.renderer.rules once the plugin is installed
RendererRules ==
  registerRendererRules(
    registerRendererRules(
      registerRendererRules(
        registerRendererRules([t \in {} |-> ""], sideNoteConfig),
        marginNoteConfig),
      leftSidebarConfig),
    rightSidebarConfig)

(***************************************************************************)
(* Inputs                                                                  *)
(***************************************************************************)
Alphabet == {SN_TOKEN, MN_TOKEN, LEFT_SIDEBAR_TOKEN, RIGHT_SIDEBAR_TOKEN, TOKEN_PIPE, "a"}

SpanAlphabet == {TOKEN_PIPE, "a", " "}

SeqsUpTo(S, n) == UNION {[1..k -> S] : k \in 0..n}

Configs == {sideNoteConfig, marginNoteConfig, leftSidebarConfig, rightSidebarConfig}

Wrap(c, span) == c.openMarker \o span \o c.closeMarker

Pad(n) == [i \in 1..n |-> "a"]

\* every short text
ShortSources == SeqsUpTo(Alphabet, MaxLen)

\* one annotation around every short span, with and without text around it
FlatSources ==
  {pre \o Wrap(c, s) \o post :
     pre \in {<<>>, <<"a">>}, post \in {<<>>, <<"a">>},
     c \in Configs, s \in SeqsUpTo(SpanAlphabet, MaxSpan)}

\* an opening marker that is never closed
UnclosedSources ==
  {pre \o c.openMarker \o s :
     pre \in {<<>>, <<"a">>}, c \in Configs, s \in SeqsUpTo(SpanAlphabet, MaxSpan)}

\* annotations inside annotations, d levels deep
RECURSIVE Deep(_)
Deep(d) ==
  IF d = 0 THEN {<<"a">>, <<"a", TOKEN_PIPE, "a">>}
  ELSE {pre \o Wrap(c, s) :
          pre \in {<<>>, <<"a", TOKEN_PIPE>>}, c \in Configs, s \in Deep(d - 1)}

DeepSources == UNION {Deep(d) : d \in 1..MaxNest}

\* a closing marker just inside and just outside the search window
LongSources ==
  {Wrap(c, <<"a", TOKEN_PIPE>> \o Pad(n)) :
     c \in Configs, n \in (SEARCH_LIMIT - 5)..SEARCH_LIMIT}

\* every way to put k different kinds in a row
Orderings(k) ==
  {p \in [1..k -> Configs] : \A i, j \in 1..k : p[i] = p[j] => i = j}

\* the kinds of p nested one in the other from p[i] on, the innermost around
\* plain text; a note gets a reference in front of what it holds
RECURSIVE Chain(_, _)
Chain(p, i) ==
  IF i > Len(p) THEN <<"a">>
  ELSE Wrap(p[i], (IF "refClass" \in DOMAIN p[i] THEN <<"a", TOKEN_PIPE>> ELSE <<>>)
                  \o Chain(p, i + 1))

\* annotations nested as deep as MAX_PARSE_DEPTH
ChainSources == {Chain(p, 1) : p \in Orderings(MAX_PARSE_DEPTH)}

\* the deepest nestings there are: a kind cannot hold itself, so no chain is
\* longer than the number of kinds
FullChainSources ==
  {pre \o Chain(p, 1) : pre \in {<<>>, <<"a">>}, p \in Orderings(Cardinality(Configs))}

\* n annotations of kind c one after the other, each with one of kind d in
\* its body
RECURSIVE Row(_, _, _)
Row(c, d, n) ==
  IF n = 0 THEN <<>>
  ELSE Wrap(c, <<"a", TOKEN_PIPE>> \o Wrap(d, <<"a", TOKEN_PIPE, "a">>)) \o Row(c, d, n - 1)

\* more sub-parses in one document than MAX_PARSE_DEPTH: notes, each with the
\* two sub-parses of its reference and its body
RowSources ==
  {Row(c, leftSidebarConfig, (MAX_PARSE_DEPTH + 1) \div 2) :
     c \in {sideNoteConfig, marginNoteConfig}}

Sources ==
  ShortSources \cup FlatSources \cup UnclosedSources \cup DeepSources \cup LongSources
  \cup ChainSources \cup RowSources

\* documents parsed after another one
FollowUps == {Wrap(leftSidebarConfig, <<"a">>)}

PosMaxChoices(src) == {Len(src), Max(0, Len(src) - MaxNarrow)}

(***************************************************************************)
(* The state machine                                                       *)
(*   state         : the current parse session (src, pos, posMax, tokens,  *)
(*                   pending, id)                                          *)
(*   parseDepthMap : the module-level depth table, keyed by session id     *)
(*   last          : what the last tokenizer call was given and returned   *)
(*                   (span: the content a direct bridge call was given)    *)
(*   hostError     : the error that aborted the host's parse, "" if none   *)
(***************************************************************************)
NewState(src, posMax, id) ==
  [src |-> src, pos |-> 0, posMax |-> posMax, tokens |-> <<>>,
   pending |-> FALSE, id |-> id]

\* the session record the tokenizers work on
Session(s, map, pushLeft, parseLeft) ==
  [src |-> s.src, pos |-> s.pos, posMax |-> s.posMax, tokens |-> s.tokens,
   pending |-> s.pending, id |-> s.id, level |-> 0, depthMap |-> map,
   thrown |-> FALSE, bridge |-> 0, nest |-> 0, peak |-> 0,
   pushLeft |-> pushLeft, parseLeft |-> parseLeft, fired |-> {}]

StateOf(st) ==
  [src |-> st.src, pos |-> st.pos, posMax |-> st.posMax, tokens |-> st.tokens,
   pending |-> st.pending, id |-> st.id]

NoCall(s, map) ==
  [rule |-> "none", silent |-> FALSE, ret |-> FALSE, thrown |-> FALSE,
   endPos |-> NULL, type |-> "none", bridge |-> 0, nest |-> 0, fired |-> {},
   peak |-> 0, span |-> <<>>, round |-> 0, entry |-> s, entryMap |-> map]

InlineError == "inline rule didn't increment state.pos"

(***************************************************************************)
(* services/common/extensionContext.ts: the ExtensionContext singleton.    *)
(* extension.instance is the static _instance field, <<>> for undefined    *)
(* and <<object>> otherwise; objects are told apart by the order of their  *)
(* construction.  extension.reply is what the last call gave its caller.   *)
(***************************************************************************)
\* the vscode.ExtensionContext values handed to initialize
Contexts == {"ctx1", "ctx2"}

\* the markdown-it engines handed to setMarkdown
Engines == {"md1", "md2"}

NoReply ==
  [op |-> "none", thrown |-> "", value |-> 0, flag |-> FALSE, had |-> 0]

\* the identity of the object in _instance, 0 for undefined
InstanceId(ext) == IF ext.instance = <<>> THEN 0 ELSE ext.instance[1].id

Gave(ext, op, value, flag) ==
  [op |-> op, thrown |-> "", value |-> value, flag |-> flag, had |-> InstanceId(ext)]

Threw(ext, op, message) ==
  [op |-> op, thrown |-> message, value |-> 0, flag |-> FALSE, had |-> InstanceId(ext)]

\* new ExtensionContext(ctx)
Construct(id, ctx) ==
  [id |-> id, vsContext |-> ctx, markdown |-> "", panel |-> "open", warned |-> FALSE]

Unloaded == [instance |-> <<>>, created |-> 0, reply |-> NoReply]

initialize(ext, ctx) ==
  IF ext.instance # <<>>
  THEN [ext EXCEPT !.reply = Threw(ext, "initialize", "ExtensionContext already initialized")]
  ELSE [instance |-> <<Construct(ext.created + 1, ctx)>>,
        created |-> ext.created + 1,
        reply |-> Gave(ext, "initialize", ext.created + 1, FALSE)]

current(ext) ==
  IF ext.instance = <<>>
  THEN [ext EXCEPT !.reply =
          Threw(ext, "current", "ExtensionContext not initialized. Call initialize() first.")]
  ELSE [ext EXCEPT !.reply = Gave(ext, "current", InstanceId(ext), FALSE)]

isInitialized(ext) ==
  [ext EXCEPT !.reply = Gave(ext, "isInitialized", 0, ext.instance # <<>>)]

\* ExtensionContext.current.setMarkdown(md)
setMarkdown(ext, md) ==
  IF ext.instance = <<>> THEN current(ext)
  ELSE [ext EXCEPT
          !.instance[1].warned = @ \/ ext.instance[1].markdown # "",
          !.instance[1].markdown = md,
          !.reply = Gave(ext, "setMarkdown", InstanceId(ext), FALSE)]

\* _reset(): dispose() closes the panel of the object that is then let go
reset(ext) ==
  IF ext.instance # <<>>
  THEN [ext EXCEPT !.instance = <<>>, !.reply = Gave(ext, "_reset", 0, FALSE)]
  ELSE [ext EXCEPT !.reply = Gave(ext, "_reset", 0, FALSE)]

\* a plugin just installed and the host starting on one of the documents
Start(documents) ==
  /\ \E src \in documents : \E m \in PosMaxChoices(src) : state = NewState(src, m, 1)
  /\ parseDepthMap = <<>>
  /\ last = NoCall(state, parseDepthMap)
  /\ hostError = ""
  /\ extension = Unloaded

Init == Start(Sources)

Scanning == hostError = "" /\ state.pos < state.posMax

\* the host calls a rule of the chain at the cursor
Call(rule, silent, out) ==
  /\ last' = [rule |-> rule, silent |-> silent, ret |-> out.ret,
              thrown |-> out.st.thrown, endPos |-> out.endPos, type |-> out.type,
              bridge |-> out.st.bridge, nest |-> out.st.nest, fired |-> out.st.fired,
              peak |-> out.st.peak, span |-> <<>>,
              round |-> 0, entry |-> state, entryMap |-> parseDepthMap]
  /\ state' = StateOf(out.st)
  /\ parseDepthMap' = out.st.depthMap
  /\ hostError' = IF out.st.thrown THEN "rule raised" ELSE hostError
  /\ UNCHANGED extension

\* the chain gets to the rules after the text rule only at a terminator
AtTerminator == isTerminatorChar(CharCodeAt(state.src, state.pos))

NotesCall ==
  /\ Scanning
  /\ AtTerminator
  /\ \E silent \in BOOLEAN :
       Call("notes", silent, notesTokenizer(Session(state, parseDepthMap, -1, -1), silent))

SidebarCall ==
  /\ Scanning
  /\ AtTerminator
  /\ \E silent \in BOOLEAN :
       Call("sidebars", silent, sidebarTokenizer(Session(state, parseDepthMap, -1, -1), silent))

\* no rule took the cursor in commit mode: the host takes plain text
NoRuleTakes(st) ==
  \/ ~isTerminatorChar(CharCodeAt(st.src, st.pos))
  \/ ~notesTokenizer(st, FALSE).ret /\ ~sidebarTokenizer(st, FALSE).ret

TextRule ==
  /\ Scanning
  /\ NoRuleTakes(Session(state, parseDepthMap, -1, -1))
  /\ state' = StateOf(HostText(Session(state, parseDepthMap, -1, -1)))
  /\ last' = NoCall(state', parseDepthMap)
  /\ UNCHANGED <<parseDepthMap, hostError, extension>>

\* whether a rule of the chain reports a match in silent mode
SilentOk(st) ==
  \/ ~isTerminatorChar(CharCodeAt(st.src, st.pos))
  \/ notesTokenizer(st, TRUE).ret
  \/ sidebarTokenizer(st, TRUE).ret

\* where that rule left the cursor
SilentPos(st) ==
  IF ~isTerminatorChar(CharCodeAt(st.src, st.pos)) THEN TextEnd(st)
  ELSE IF notesTokenizer(st, TRUE).ret THEN notesTokenizer(st, TRUE).st.pos
  ELSE sidebarTokenizer(st, TRUE).st.pos

\* the host's silent look-ahead from the cursor to the scan bound, one
\* skipToken after another: the chain is run with silent = true; a rule that
\* reports a match must have moved the cursor, or the host raises; a position
\* no rule matches is stepped over
RECURSIVE SkipScan(_)
SkipScan(st) ==
  IF st.pos >= st.posMax THEN ""
  ELSE IF SilentOk(st) /\ SilentPos(st) <= st.pos THEN InlineError
  ELSE SkipScan([st EXCEPT !.pos = IF SilentOk(st) THEN SilentPos(st) ELSE @ + 1])

\* the host looks ahead in silent mode (for the end of a bracketed label) and
\* restores the cursor afterwards
SkipToken ==
  /\ Scanning
  /\ hostError' = SkipScan(Session(state, parseDepthMap, -1, -1))
  /\ last' = NoCall(state, parseDepthMap)
  /\ UNCHANGED <<state, parseDepthMap, extension>>

\* the host starts on the next document with the same installed plugin
NewSession ==
  /\ ~Scanning
  /\ state.id < MaxSessions
  /\ \E src \in {state.src} \cup FollowUps :
       state' = NewState(src, Len(src), state.id + 1)
  /\ last' = NoCall(state', parseDepthMap)
  /\ hostError' = ""
  /\ UNCHANGED <<parseDepthMap, extension>>

Next == NotesCall \/ SidebarCall \/ TextRule \/ SkipToken \/ NewSession

Spec == Init /\ [][Next]_vars

\* the same machine started on the deepest nestings
InitDeep == Start(FullChainSources)

SpecDeep == InitDeep /\ [][Next]_vars

(***************************************************************************)
(* The same parse with a host whose push or parseInline may raise: in a    *)
(* commit-mode call at most one of the two raises, once, at a chosen call. *)
(***************************************************************************)
Faults ==
  {[push |-> -1, parse |-> -1]}
  \cup {[push |-> k, parse |-> -1] : k \in 0..MaxPushFault}
  \cup {[push |-> -1, parse |-> k] : k \in 0..MaxParseFault}

NotesFault ==
  /\ Scanning
  /\ AtTerminator
  /\ \E f \in Faults :
       Call("notes", FALSE, notesTokenizer(Session(state, parseDepthMap, f.push, f.parse), FALSE))

SidebarFault ==
  /\ Scanning
  /\ AtTerminator
  /\ \E f \in Faults :
       Call("sidebars", FALSE,
            sidebarTokenizer(Session(state, parseDepthMap, f.push, f.parse), FALSE))

NextFault == NotesFault \/ SidebarFault \/ TextRule \/ NewSession

SpecFault == Init /\ [][NextFault]_vars

\* the tokenizers called in either mode, by a host that may raise or not, on
\* the short texts, the texts with one annotation and the rows of annotations
\* with an annotation in their bodies
InitAny == Start(ShortSources \cup FlatSources \cup RowSources)

NextAny ==
  NotesCall \/ SidebarCall \/ NotesFault \/ SidebarFault \/ TextRule \/ SkipToken \/ NewSession

SpecAny == InitAny /\ [][NextAny]_vars

(***************************************************************************)
(* The host's tokenize loop as it runs a document: round after round of    *)
(* the rule chain in commit mode at the cursor, until the scan bound is    *)
(* reached.  last.round is the parity of the number of rounds made.        *)
(***************************************************************************)
Round(stepped) ==
  /\ state' = StateOf(stepped)
  /\ parseDepthMap' = stepped.depthMap
  /\ last' = [NoCall(state, parseDepthMap) EXCEPT
                !.rule = "chain", !.bridge = stepped.bridge, !.nest = stepped.nest,
                !.peak = stepped.peak,
                !.round = 1 - last.round]
  /\ hostError' = IF stepped.thrown THEN "rule raised" ELSE hostError
  /\ UNCHANGED extension

HostRound == Scanning /\ Round(HostStep(Session(state, parseDepthMap, -1, -1)))

NextLive == HostRound \/ NewSession

\* The loop is a while loop of straight-line code: it makes its next round
\* for as long as the scan bound is not reached.  A round always changes
\* last.round, so HostRound can be taken exactly when Scanning holds, and
\* this is weak fairness of HostRound, WF_vars(HostRound), with Scanning
\* written for ENABLED <<HostRound>>_vars.
LoopRuns == []<>(~Scanning) \/ []<><<HostRound>>_vars

SpecLive == Init /\ [][NextLive]_vars /\ LoopRuns

(***************************************************************************)
(* The extension host and the unit tests driving the ExtensionContext     *)
(* singleton: extension.ts activates with initialize, the tests also call *)
(* the accessors and _reset in any order.  No document is being parsed.    *)
(***************************************************************************)
Parser == <<state, parseDepthMap, last, hostError>>

Initialize ==
  /\ extension.instance # <<>> \/ extension.created < MaxInstances
  /\ \E ctx \in Contexts : extension' = initialize(extension, ctx)
  /\ UNCHANGED Parser

Current == extension' = current(extension) /\ UNCHANGED Parser

IsInitialized == extension' = isInitialized(extension) /\ UNCHANGED Parser

SetMarkdown ==
  /\ \E md \in Engines : extension' = setMarkdown(extension, md)
  /\ UNCHANGED Parser

Reset == extension' = reset(extension) /\ UNCHANGED Parser

InitExt == Start({<<>>})

NextExt == Initialize \/ Current \/ IsInitialized \/ SetMarkdown \/ Reset

SpecExt == InitExt /\ [][NextExt]_vars

(***************************************************************************)
(* The sub-parser bridge called on its own: processTextWithMarkdown given  *)
(* a session that has taken some plain text, a span, and a depth table in  *)
(* which the counter of the session has any value from 0 to past the       *)
(* maximum; the fragment parse it starts may be made to raise.             *)
(***************************************************************************)
\* the spans handed to the bridge: short ones, and one annotation of each kind
BridgeSpans ==
  SeqsUpTo(SpanAlphabet, MaxSpan)
  \cup {Wrap(c, <<"a", TOKEN_PIPE, "a">>) : c \in Configs}

BridgeSources == {Pad(n) : n \in 0..MaxLen}

InitBridge ==
  /\ \E src \in BridgeSources : \E m \in PosMaxChoices(src) : state = NewState(src, m, 1)
  /\ \E d \in 0..(MAX_PARSE_DEPTH + 1) :
       parseDepthMap = IF d = 0 THEN <<>> ELSE MapSet(<<>>, state.id, d)
  /\ last = NoCall(state, parseDepthMap)
  /\ hostError = ""
  /\ extension = Unloaded

Bridged(content, out) ==
  /\ last' = [NoCall(state, parseDepthMap) EXCEPT
                !.rule = "bridge", !.thrown = out.thrown, !.bridge = out.bridge,
                !.nest = out.nest, !.peak = out.peak, !.fired = out.fired,
                !.span = content]
  /\ state' = StateOf(out)
  /\ parseDepthMap' = out.depthMap
  /\ hostError' = IF out.thrown THEN "rule raised" ELSE hostError
  /\ UNCHANGED extension

BridgeCall ==
  /\ last.rule # "bridge"
  /\ hostError = ""
  /\ \E content \in BridgeSpans : \E parseLeft \in {-1, 0} :
       Bridged(content,
               processTextWithMarkdown(Session(state, parseDepthMap, -1, parseLeft), content))

NextBridge == BridgeCall \/ TextRule

SpecBridge == InitBridge /\ [][NextBridge]_vars


(***************************************************************************)
(* Vocabulary of the properties                                            *)
(***************************************************************************)
\* the last step was a call of one of the two tokenizers
IsCall == last.rule \in {"notes", "sidebars"}

\* the tokens the last call appended to the output list
Appended == SubSeq(state.tokens, Len(last.entry.tokens) + 1, Len(state.tokens))

\* the last call left the cursor and the output list as they were
Untouched == state.pos = last.entry.pos /\ state.tokens = last.entry.tokens

\* the tokenizer that handles the kind
RuleOf(c) == IF c \in {sideNoteConfig, marginNoteConfig} THEN "notes" ELSE "sidebars"

\* the kind c opens at the cursor the last call was given
OpenedBy(c) ==
  /\ last.rule = RuleOf(c)
  /\ OccursAt(last.entry.src, c.openMarker, last.entry.pos)

\* position just after that opening marker
SpanStart(c) == last.entry.pos + Len(c.openMarker)

\* i is where the closing marker of kind c first occurs after the opening marker
ClosesAt(c, i) ==
  /\ i >= SpanStart(c)
  /\ OccursAt(last.entry.src, c.closeMarker, i)
  /\ \A j \in SpanStart(c)..(i - 1) : ~OccursAt(last.entry.src, c.closeMarker, j)

\* the text enclosed by the markers, the closing one at i
SpanTo(c, i) == Slice(last.entry.src, SpanStart(c), i)

\* p is the place of the first separator of span
FirstPipe(span, p) ==
  /\ p \in 1..Len(span)
  /\ span[p] = TOKEN_PIPE
  /\ \A q \in 1..(p - 1) : span[q] # TOKEN_PIPE

\* span has a separator and a reference that is not blank before the first one
HasReference(span) ==
  \E p \in 1..Len(span) :
    FirstPipe(span, p) /\ \E q \in 1..(p - 1) : span[q] # " "

\* span has a separator and nothing after the first one
HasEmptyBody(span) == FirstPipe(span, Len(span))

\* the children the fragment parser yields for a span (one empty text token
\* for the empty span)
ChildrenOf(span) ==
  IF span = <<>> THEN <<Token("text", "", 0)>>
  ELSE ParseInline(span, Session(last.entry, last.entryMap, -1, -1)).tokens[1].children

\* the structural token of kind c with the given suffix
Structural(c, part, tag, nesting) ==
  [Token(c.type \o part, tag, nesting) EXCEPT
     !.markup = IF part = "_open" THEN c.openMarker ELSE <<>>]

(***************************************************************************)
(* C1: whenever notesTokenizer or sidebarTokenizer returns false, in       *)
(* silent or commit mode, state.pos is what it was at entry and no token   *)
(* has been appended to the output list.                                   *)
(***************************************************************************)
C1_FalseLeavesSessionUntouched ==
  (IsCall /\ ~last.ret /\ ~last.thrown) => Untouched

\* a commit-mode call that found the closing marker of a note in the middle
\* of a text, behind tokens already emitted, and then rejected the note
C1_Witness ==
  /\ last.rule = "notes" /\ ~last.silent /\ ~last.ret
  /\ last.endPos # NULL
  /\ last.entry.pos > 0 /\ Len(last.entry.tokens) > 0

(***************************************************************************)
(* C2: in commit mode, whenever a tokenizer returns true the cursor is     *)
(* strictly greater than at entry and is the index of the matched closing  *)
(* marker (the first one after the opening marker) plus the length of that *)
(* marker: 2 for ++ and !!, 1 for $ and @.                                 *)
(***************************************************************************)
C2_CommitLandsAfterClosingMarker ==
  (IsCall /\ last.ret /\ ~last.silent) =>
    /\ state.pos > last.entry.pos
    /\ \E c \in Configs :
         /\ OpenedBy(c)
         /\ \E i \in 0..Len(state.src) :
              ClosesAt(c, i) /\ state.pos = i + Len(c.closeMarker)

\* a committed annotation that starts after some text and has text behind it
C2_Witness ==
  /\ IsCall /\ last.ret /\ ~last.silent
  /\ last.entry.pos > 0
  /\ state.pos < Len(state.src)

C4_TrueMeansAdvanced ==
  /\ (IsCall /\ last.ret) => state.pos > last.entry.pos
  /\ hostError # InlineError

(***************************************************************************)
(* C5: once the closing marker of a ++ or !! note has been located, the    *)
(* note is accepted if and only if the enclosed span contains '|' and the  *)
(* text before the first '|' is not blank; otherwise the tokenizer returns *)
(* false in both modes and nothing is consumed or emitted.                 *)
(***************************************************************************)
C5_AcceptedIffReference ==
  \A c \in {sideNoteConfig, marginNoteConfig} :
    (OpenedBy(c) /\ last.endPos # NULL) =>
      /\ last.ret <=> HasReference(SpanTo(c, last.endPos))
      /\ ~last.ret => Untouched

\* a note rejected because the reference before its separator is blank
C5_Witness ==
  \E c \in {sideNoteConfig, marginNoteConfig} :
    /\ OpenedBy(c) /\ last.endPos # NULL /\ ~last.ret
    /\ \E p \in 2..Len(SpanTo(c, last.endPos)) : FirstPipe(SpanTo(c, last.endPos), p)

(***************************************************************************)
(* C6: a note with a non-blank reference and an empty body (++ref|++),     *)
(* lying inside the parsed range and the search window, is accepted: in    *)
(* commit mode the tokenizer returns true without raising,                 *)
(* emits the complete structure whose body child is exactly one empty text *)
(* token, and puts the cursor past the closing marker.                     *)
(***************************************************************************)
C6_EmptyBodyAccepted ==
  \A c \in {sideNoteConfig, marginNoteConfig} :
    \A i \in 0..Len(state.src) :
      ( /\ OpenedBy(c) /\ ~last.silent
        /\ last.entry.pos + 2 < last.entry.posMax
        /\ ClosesAt(c, i) /\ i + 2 <= SpanStart(c) + SEARCH_LIMIT
        /\ HasReference(SpanTo(c, i)) /\ HasEmptyBody(SpanTo(c, i)) ) =>
        /\ last.ret /\ ~last.thrown
        /\ state.pos = i + 2
        /\ Len(Appended) >= 7
        /\ Appended[1] = Structural(c, "_open", "span", 1)
        /\ Appended[2] = Structural(c, "_ref_open", "", 1)
        /\ SubSeq(Appended, Len(Appended) - 4, Len(Appended)) =
             << Structural(c, "_ref_close", "", -1),
                Structural(c, "_content_open", "span", 1),
                Token("text", "", 0),
                Structural(c, "_content_close", "span", -1),
                Structural(c, "_close", "span", -1) >>

\* a committed note whose enclosed span ends with its first separator
C6_Witness ==
  \E c \in {sideNoteConfig, marginNoteConfig} :
    /\ OpenedBy(c) /\ ~last.silent /\ last.ret
    /\ HasEmptyBody(SpanTo(c, last.endPos))

(***************************************************************************)
(* C7: for every annotation kind the search for the closing marker is      *)
(* confined to SEARCH_LIMIT characters after the opening marker: a closing *)
(* marker beyond that window is never matched.                             *)
(***************************************************************************)
C7_ClosingWithinWindow ==
  \A c \in Configs :
    (OpenedBy(c) /\ last.ret) =>
      last.endPos + Len(c.closeMarker) <= SpanStart(c) + SEARCH_LIMIT

(***************************************************************************)
(* C8: if no closing marker follows an opening marker, the tokenizer       *)
(* returns false in both modes, raises nothing, pushes no token and leaves *)
(* the cursor unchanged.                                                   *)
(***************************************************************************)
C8_UnclosedRejected ==
  \A c \in Configs :
    ( /\ OpenedBy(c)
      /\ \A i \in SpanStart(c)..Len(last.entry.src) : ~ClosesAt(c, i) ) =>
      ~last.ret /\ ~last.thrown /\ Untouched

\* a commit-mode call at an opening marker with text but no closing marker
\* behind it
C8_Witness ==
  \E c \in Configs :
    /\ OpenedBy(c) /\ ~last.silent
    /\ SpanStart(c) < last.entry.posMax
    /\ \A i \in SpanStart(c)..Len(last.entry.src) : ~ClosesAt(c, i)

(***************************************************************************)
(* C9: for every committed note of kind K the tokens appended are, in this *)
(* order and with nothing else between them: K_open, K_ref_open, the       *)
(* children of the reference, K_ref_close, K_content_open, the children of *)
(* the body, K_content_close, K_close.                                     *)
(***************************************************************************)
C9_NoteTokenOrder ==
  \A c \in {sideNoteConfig, marginNoteConfig} :
    (OpenedBy(c) /\ last.ret /\ ~last.silent) =>
      \E p \in 1..Len(SpanTo(c, last.endPos)) :
        /\ FirstPipe(SpanTo(c, last.endPos), p)
        /\ Appended =
             << Structural(c, "_open", "span", 1),
                Structural(c, "_ref_open", "", 1) >>
             \o ChildrenOf(SubSeq(SpanTo(c, last.endPos), 1, p - 1))
             \o << Structural(c, "_ref_close", "", -1),
                   Structural(c, "_content_open", "span", 1) >>
             \o ChildrenOf(SubSeq(SpanTo(c, last.endPos), p + 1,
                                  Len(SpanTo(c, last.endPos))))
             \o << Structural(c, "_content_close", "span", -1),
                   Structural(c, "_close", "span", -1) >>

\* a committed note whose body holds an annotation of its own
C9_Witness ==
  /\ last.rule = "notes" /\ last.ret /\ ~last.silent
  /\ last.nest >= 2
  /\ Len(Appended) > 8

(***************************************************************************)
(* C10: for every committed sidebar of kind K the whole span between the   *)
(* markers is the body ('|' is no separator there, and the span may be     *)
(* empty), and the tokens appended are exactly K_open, the children of     *)
(* that body, K_close.                                                     *)
(***************************************************************************)
C10_SidebarWholeSpan ==
  \A c \in {leftSidebarConfig, rightSidebarConfig} :
    (OpenedBy(c) /\ last.ret /\ ~last.silent) =>
      \E i \in 0..Len(state.src) :
        /\ ClosesAt(c, i)
        /\ Appended =
             << Structural(c, "_open", "span", 1) >>
             \o ChildrenOf(SpanTo(c, i))
             \o << Structural(c, "_close", "span", -1) >>

\* a committed sidebar whose body holds a '|'
C10_Witness ==
  \E c \in {leftSidebarConfig, rightSidebarConfig} :
    /\ OpenedBy(c) /\ last.ret /\ ~last.silent
    /\ \E q \in 1..Len(SpanTo(c, last.endPos)) : SpanTo(c, last.endPos)[q] = TOKEN_PIPE


\* the structural token types that open and close one another
StructuralPairs ==
  {[open |-> c.type \o "_open", close |-> c.type \o "_close"] : c \in Configs}
  \cup {[open |-> c.type \o "_ref_open", close |-> c.type \o "_ref_close"] :
          c \in {sideNoteConfig, marginNoteConfig}}
  \cup {[open |-> c.type \o "_content_open", close |-> c.type \o "_content_close"] :
          c \in {sideNoteConfig, marginNoteConfig}}

\* the opening tokens of toks[i..] still waiting for their closing token, on
\* top of stack; <<"mismatch">> if a closing token does not close the
\* innermost open one
RECURSIVE Unmatched(_, _, _)
Unmatched(toks, i, stack) ==
  IF i > Len(toks) THEN stack
  ELSE IF toks[i].nesting = 1 THEN Unmatched(toks, i + 1, Append(stack, toks[i].type))
  ELSE IF toks[i].nesting = 0 THEN Unmatched(toks, i + 1, stack)
  ELSE IF /\ stack # <<>>
          /\ [open |-> stack[Len(stack)], close |-> toks[i].type] \in StructuralPairs
  THEN Unmatched(toks, i + 1, SubSeq(stack, 1, Len(stack) - 1))
  ELSE <<"mismatch">>

\* every opening token has its one closing token, properly nested
Balanced(toks) == Unmatched(toks, 1, <<>>) = <<>>

RECURSIVE NestingSum(_, _)
NestingSum(toks, i) ==
  IF i > Len(toks) THEN 0 ELSE toks[i].nesting + NestingSum(toks, i + 1)

(***************************************************************************)
(* C11: when a top-level tokenizer call returns, every _open token it      *)
(* appended has exactly one matching _close token appended by the same     *)
(* call, properly nested, and the nesting deltas of the tokens appended by *)
(* a successful match sum to zero.                                         *)
(***************************************************************************)
C11_OpenCloseBalanced ==
  (IsCall /\ ~last.thrown) =>
    /\ Balanced(Appended)
    /\ last.ret => NestingSum(Appended, 1) = 0

\* a committed annotation with another annotation's tokens among its children
C11_Witness ==
  /\ IsCall /\ last.ret /\ ~last.silent
  /\ \E i \in 2..Len(Appended) :
       /\ Appended[i].nesting = 1
       /\ \E c \in Configs : Appended[i].type = c.type \o "_open"


(***************************************************************************)
(* C12: if a step fails partway through the emission of a note or a        *)
(* sidebar (a push raises after some structural tokens were appended), the *)
(* emitter falls back to plain text: the failure does not leave the        *)
(* tokenizer and the output list does not end up holding a half-built,     *)
(* unbalanced open/close sequence.                                         *)
(***************************************************************************)
C12_FailedEmissionFallsBack ==
  (IsCall /\ "push" \in last.fired) =>
    /\ ~last.thrown
    /\ Balanced(Appended)


(***************************************************************************)
(* C13: for any input, the depth of nested sub-parser bridge invocations   *)
(* (an annotation inside an annotation inside an annotation ...) never     *)
(* exceeds the configured maximum of 3: what is nested more deeply is not  *)
(* sub-parsed but emitted as a single literal text token.                  *)
(***************************************************************************)
C13_BridgeDepthBounded ==
  IsCall => last.nest <= MAX_PARSE_DEPTH

\* the counter kept in map for the state object id (absent: 0)
DepthOf(map, id) == IF id \in DOMAIN map THEN map[id] ELSE 0

(***************************************************************************)
(* C14: the depth counter of a session is incremented before each          *)
(* sub-parse and decremented on every way out of it: once a tokenizer call *)
(* is over, whether the bridge returned normally or raised, the counter of *)
(* the session has the value it had when the call began.                   *)
(***************************************************************************)
C14_DepthCounterRestored ==
  IsCall => DepthOf(parseDepthMap, state.id) = DepthOf(last.entryMap, last.entry.id)

\* a call in which the bridge ran and its sub-parse or a push raised
C14_Witness ==
  /\ IsCall
  /\ last.bridge > 0
  /\ "parse" \in last.fired
  /\ DepthOf(parseDepthMap, state.id) = DepthOf(last.entryMap, last.entry.id)

\* no counter in the table is negative
CountersNonNegative == \A k \in DOMAIN parseDepthMap : parseDepthMap[k] >= 0

\* a step leaves the counter of every session other than the current one as
\* it was
OthersKept ==
  \A k \in DOMAIN parseDepthMap :
    k # state.id => k \in DOMAIN parseDepthMap' /\ parseDepthMap'[k] = parseDepthMap[k]

(***************************************************************************)
(* C15: counters are kept per session: no session's counter is ever        *)
(* negative, and incrementing or decrementing the counter of one session   *)
(* never changes the counter of another session.                           *)
(***************************************************************************)
C15_CountersPerSession == []CountersNonNegative /\ [][OthersKept]_vars

\* a call of a later session whose bridge ran while the table held the
\* counter of an earlier session
C15_Witness ==
  /\ IsCall
  /\ last.bridge > 0
  /\ \E k \in DOMAIN last.entryMap : k # state.id /\ parseDepthMap[k] = last.entryMap[k]

\* the one literal text token that stands for a span
Literal(span) == << [Token("text", "", 0) EXCEPT !.content = span] >>

\* the tokens of a note of kind c around the given children
NoteAround(c, refChildren, bodyChildren) ==
  << Structural(c, "_open", "span", 1), Structural(c, "_ref_open", "", 1) >>
  \o refChildren
  \o << Structural(c, "_ref_close", "", -1), Structural(c, "_content_open", "span", 1) >>
  \o bodyChildren
  \o << Structural(c, "_content_close", "span", -1), Structural(c, "_close", "span", -1) >>

\* the last call emitted the note ref|body of kind c with one of the two
\* spans as literal text and the other sub-parsed
OneSpanLiteral(c, ref, body) ==
  \/ Appended = NoteAround(c, Literal(ref), ChildrenOf(body))
  \/ Appended = NoteAround(c, ChildrenOf(ref), Literal(body))

(***************************************************************************)
(* C16: if the fragment parse raises while a reference or body span is     *)
(* sub-parsed, the exception does not leave the tokenizer: the span is     *)
(* replaced by exactly one literal text token holding the extracted text,  *)
(* the structural tokens around it are emitted all the same, the cursor is *)
(* advanced and the tokenizer returns true.                                *)
(***************************************************************************)
C16_ParseFailureBecomesText ==
  (IsCall /\ "parse" \in last.fired) =>
    /\ ~last.thrown
    /\ last.ret
    /\ state.pos > last.entry.pos
    /\ \A c \in {sideNoteConfig, marginNoteConfig} :
         OpenedBy(c) =>
           \E p \in 1..Len(SpanTo(c, last.endPos)) :
             /\ FirstPipe(SpanTo(c, last.endPos), p)
             /\ OneSpanLiteral(c, SubSeq(SpanTo(c, last.endPos), 1, p - 1),
                               SubSeq(SpanTo(c, last.endPos), p + 1,
                                      Len(SpanTo(c, last.endPos))))
    /\ \A c \in {leftSidebarConfig, rightSidebarConfig} :
         OpenedBy(c) =>
           Appended = << Structural(c, "_open", "span", 1) >>
                      \o Literal(SpanTo(c, last.endPos))
                      \o << Structural(c, "_close", "span", -1) >>

\* a note whose reference was sub-parsed and whose body, holding an
\* annotation, made the fragment parse raise
C16_Witness ==
  /\ last.rule = "notes" /\ ~last.silent
  /\ "parse" \in last.fired
  /\ last.bridge = 2
  /\ Len(Appended) = 8
  /\ \E i \in 1..Len(Appended[6].content) : isTerminatorChar(Appended[6].content[i])

\* the last call made again on the state it was given, by a plugin whose
\* depth table is still empty
FirstRun ==
  IF last.rule = "notes"
  THEN notesTokenizer(Session(last.entry, <<>>, -1, -1), last.silent)
  ELSE sidebarTokenizer(Session(last.entry, <<>>, -1, -1), last.silent)

\* the last call ended as out does
SameOutcome(out) ==
  /\ last.ret = out.ret
  /\ last.thrown = out.st.thrown
  /\ state.pos = out.st.pos
  /\ state.tokens = out.st.tokens

(***************************************************************************)
(* C17: tokenizing an input again with the same installed plugin, whose    *)
(* depth table is shared by all runs, gives the return values, the cursor  *)
(* and the token sequence of the first time: every call ends as it does    *)
(* with a depth table nothing has been written to yet.                     *)
(***************************************************************************)
C17_RunsIndependent == IsCall => SameOutcome(FirstRun)

\* a committed annotation with a sub-parsed span in the second document,
\* the table holding what the first document left
C17_Witness ==
  /\ IsCall /\ last.ret /\ ~last.silent
  /\ state.id > 1
  /\ last.bridge > 0
  /\ last.entryMap # <<>>

(***************************************************************************)
(* C18: for every finite input a complete parse terminates: the host's     *)
(* scan loop, which calls the tokenizers at the cursor and takes plain     *)
(* text itself where they return false, reaches the scan bound, and the    *)
(* sub-parses nested in one another bottom out (there are never more of    *)
(* them than there are kinds of annotation).                               *)
(***************************************************************************)
C18_ParseTerminates ==
  /\ Scanning ~> ~Scanning
  /\ [](last.nest <= Cardinality(Configs))

\* a document parsed to its scan bound, the last round with sub-parses
\* nested in one another
C18_Witness ==
  /\ ~Scanning
  /\ state.posMax > 0
  /\ last.rule = "chain"
  /\ last.nest >= 2

\* what the tokens of kind c render as, in the order a note emits them
NoteWrappers(c) ==
  << RendererRules[c.type \o "_open"], RendererRules[c.type \o "_ref_open"],
     RendererRules[c.type \o "_ref_close"], RendererRules[c.type \o "_content_open"],
     RendererRules[c.type \o "_content_close"], RendererRules[c.type \o "_close"] >>

\* what the tokens of kind c render as, in the order a sidebar emits them
SidebarWrappers(c) ==
  << RendererRules[c.type \o "_open"], RendererRules[c.type \o "_close"] >>

\* the opening wrappers there are
OpeningWrappers ==
  {"<span class=\"sn-ref\">", "<span class=\"sidenote\">", "<span class=\"mn-ref\">",
   "<span class=\"mnote\">", "<span class=\"left-sidebar\">",
   "<span class=\"right-sidebar\">"}

\* how many of toks a plugin rule renders as one of pieces
Rendered(toks, pieces) ==
  Cardinality({i \in 1..Len(toks) :
                 /\ toks[i].type \in DOMAIN RendererRules
                 /\ RendererRules[toks[i].type] \in pieces})

C20_SecondInitializeReturnsSame ==
  (extension.reply.op = "initialize" /\ extension.reply.had # 0) =>
    /\ extension.reply.thrown = ""
    /\ extension.reply.value = extension.reply.had

\* the last step was a direct call of the bridge
IsBridge == last.rule = "bridge"

(***************************************************************************)
(* C21: when processTextWithMarkdown is invoked for a session whose depth  *)
(* counter is already at or above the maximum (3), it does not call the    *)
(* fragment parser, pushes exactly one text token whose content is the     *)
(* whole span, and leaves the depth counter unchanged.                     *)
(***************************************************************************)
C21_AtLimitLiteralText ==
  (IsBridge /\ DepthOf(last.entryMap, last.entry.id) >= MAX_PARSE_DEPTH) =>
    /\ last.bridge = 0
    /\ ~last.thrown
    /\ Appended = Literal(last.span)
    /\ parseDepthMap = last.entryMap

\* the bridge given an annotation as its span, behind text already taken, by
\* a session whose counter is at the maximum
C21_Witness ==
  /\ IsBridge
  /\ DepthOf(last.entryMap, last.entry.id) = MAX_PARSE_DEPTH
  /\ Len(last.entry.tokens) > 0
  /\ Appended = Literal(last.span)
  /\ \E i \in 1..Len(last.span) : isTerminatorChar(last.span[i])

(***************************************************************************)
(* C22: a sub-parser bridge call runs the nested parse on a fresh context: *)
(* after the call (whether it returned or raised) the enclosing session is *)
(* the same session with the source text, cursor and scan bound it had     *)
(* before the call, and the only change to it is that tokens were appended *)
(* to its output list.                                                     *)
(***************************************************************************)
C22_BridgeKeepsSession ==
  IsBridge =>
    /\ state.id = last.entry.id
    /\ state.src = last.entry.src
    /\ state.pos = last.entry.pos
    /\ state.posMax = last.entry.posMax
    /\ Len(state.tokens) >= Len(last.entry.tokens)
    /\ SubSeq(state.tokens, 1, Len(last.entry.tokens)) = last.entry.tokens

\* a bridge call made in the middle of a source, behind text already taken,
\* whose nested parse met an annotation and sub-parsed in its turn
C22_Witness ==
  /\ IsBridge
  /\ last.bridge = 1 /\ last.nest >= 2
  /\ last.entry.pos > 0 /\ last.entry.pos < Len(last.entry.src)
  /\ Len(last.entry.tokens) > 0
  /\ Len(Appended) > 1

\* the tokens the host yields for span parsed as a text of its own, by a
\* plugin whose depth table is empty
Standalone(span) ==
  HostTokenize(Session(NewState(span, Len(span), 1), <<>>, -1, -1)).tokens

(***************************************************************************)
(* C23: for every non-empty span that is sub-parsed, the children appended *)
(* to the session's output list are, one for one and in the same order,    *)
(* the tokens the host's parser yields for that span parsed standalone,    *)
(* each with the same type, tag and nesting and with every other field     *)
(* copied unchanged: markdown inside an annotation tokenizes exactly as it *)
(* would at top level.                                                     *)
(***************************************************************************)
C23_ChildrenAsStandalone ==
  (IsBridge /\ last.bridge > 0 /\ ~last.thrown) =>
    /\ last.span # <<>>
    /\ Appended = Standalone(last.span)

\* a sub-parsed span that holds an annotation, spliced behind text already
\* taken by a session whose counter was not at 0
C23_Witness ==
  /\ IsBridge /\ last.bridge > 0 /\ ~last.thrown
  /\ DepthOf(last.entryMap, last.entry.id) > 0
  /\ Len(last.entry.tokens) > 0
  /\ \E i \in 1..Len(Appended) : Appended[i].markup # <<>>
  /\ \E i \in 1..Len(Appended) : Appended[i].nesting = -1

(***************************************************************************)
(* C24: every tokenizer call, in either mode and with any outcome (true,   *)
(* false or an exception), is append-only on the session's output list:    *)
(* the list as it was at entry is an unchanged prefix of the list at       *)
(* return, no earlier token being removed, reordered or modified.          *)
(***************************************************************************)
C24_AppendOnly ==
  IsCall =>
    /\ Len(state.tokens) >= Len(last.entry.tokens)
    /\ SubSeq(state.tokens, 1, Len(last.entry.tokens)) = last.entry.tokens

\* a commit-mode call behind tokens already emitted, in which a push raised
\* and the emitter pushed its replacement text
C24_Witness ==
  /\ IsCall /\ ~last.silent
  /\ "push" \in last.fired /\ ~last.thrown
  /\ Len(last.entry.tokens) > 0
  /\ Len(Appended) > 0

(***************************************************************************)
(* C25: detection depends only on the first one or two characters at the   *)
(* cursor: notesTokenizer proceeds only if src[pos] and src[pos+1] are     *)
(* both '+' (sidenote) or both '!' (marginal note), sidebarTokenizer only  *)
(* if src[pos] is '$' (left sidebar) or '@' (right sidebar); for any other *)
(* leading characters (a single '+' or '!' and the mixed pairs '+!' and    *)
(* '!+' among them) it returns false with no side effect, and the kind     *)
(* chosen is always the one whose marker is at the cursor.                 *)
(***************************************************************************)
C25_DetectionByLeadingChars ==
  /\ \A c \in Configs :
       last.rule = RuleOf(c) => (last.type = c.type <=> OpenedBy(c))
  /\ (IsCall /\ \A c \in Configs : ~OpenedBy(c)) =>
       /\ last.type = "none"
       /\ ~last.ret /\ ~last.thrown
       /\ Untouched
       /\ last.bridge = 0
       /\ parseDepthMap = last.entryMap

\* notesTokenizer called at a mixed pair of note characters
C25_Witness ==
  /\ last.rule = "notes"
  /\ CharCodeAt(last.entry.src, last.entry.pos) = SN_TOKEN
  /\ CharCodeAt(last.entry.src, last.entry.pos + 1) = MN_TOKEN
  /\ last.type = "none" /\ ~last.ret

\* the reference and the body validateNoteContent gives for the span the
\* last call extracted, of kind c
Extracted(c) == validateNoteContent(SpanTo(c, last.endPos))

(***************************************************************************)
(* C26: for an accepted note the reference is exactly the text before the  *)
(* first '|' of the enclosed span and the body is exactly everything after *)
(* that first '|', later '|' characters included: reference + '|' + body   *)
(* always equals the enclosed span, and these two are the spans whose      *)
(* tokens a commit emits (when nothing raises on the way).                 *)
(***************************************************************************)
C26_SplitAtFirstPipe ==
  \A c \in {sideNoteConfig, marginNoteConfig} :
    (OpenedBy(c) /\ last.ret) =>
      /\ Extracted(c).ok
      /\ \A q \in 1..Len(Extracted(c).text) : Extracted(c).text[q] # TOKEN_PIPE
      /\ Extracted(c).text \o <<TOKEN_PIPE>> \o Extracted(c).note = SpanTo(c, last.endPos)
      /\ (~last.silent /\ last.fired = {}) =>
           Appended = NoteAround(c, ChildrenOf(Extracted(c).text),
                                 ChildrenOf(Extracted(c).note))

\* a committed note whose body holds a '|' of its own
C26_Witness ==
  \E c \in {sideNoteConfig, marginNoteConfig} :
    /\ OpenedBy(c) /\ last.ret /\ ~last.silent /\ ~last.thrown
    /\ last.fired = {}
    /\ \E q \in 1..Len(Extracted(c).note) : Extracted(c).note[q] = TOKEN_PIPE

\* the last call made on the session it was given, in the other mode
OtherMode ==
  IF last.rule = "notes"
  THEN notesTokenizer(Session(last.entry, last.entryMap, -1, -1), ~last.silent)
  ELSE sidebarTokenizer(Session(last.entry, last.entryMap, -1, -1), ~last.silent)

(***************************************************************************)
(* C27: for every source text, cursor and scan bound, a tokenizer called   *)
(* in silent mode returns true if and only if the same tokenizer called in *)
(* commit mode on an identical session returns true: the feasibility       *)
(* answer never disagrees with what a commit would do.                     *)
(***************************************************************************)
C27_SilentAgreesWithCommit ==
  IsCall => (last.ret <=> OtherMode.ret)

\* a silent call at the opening marker of a note whose closing marker is
\* there and whose content is not valid: both modes answer false
C27_Witness ==
  /\ last.rule = "notes" /\ last.silent
  /\ last.endPos # NULL
  /\ ~last.ret /\ ~OtherMode.ret
  /\ OtherMode.st.tokens = last.entry.tokens

(***************************************************************************)
(* C28: the tokenizers never consume text beyond the session's scan bound: *)
(* whenever one returns true, the matched closing marker lies entirely     *)
(* before posMax and the cursor after a commit is at most posMax, also     *)
(* when the host has narrowed posMax below the length of the source text.  *)
(***************************************************************************)
C28_WithinScanBound ==
  \A c \in Configs :
    (OpenedBy(c) /\ last.ret) =>
      /\ last.endPos + Len(c.closeMarker) <= last.entry.posMax
      /\ ~last.silent => state.pos <= state.posMax

(***************************************************************************)
(* C29: each fragment parse running on a session of its own, the depth     *)
(* counter of every session is always 0 or 1, and it is 0 whenever no      *)
(* bridge call of that session is in progress, in particular after every   *)
(* top-level tokenizer call has returned; the counter never reaches        *)
(* MAX_PARSE_DEPTH.                                                        *)
(***************************************************************************)
C29_CounterZeroOrOne ==
  /\ \A k \in DOMAIN parseDepthMap : parseDepthMap[k] = 0
  /\ last.peak \in {0, 1}
  /\ last.peak < MAX_PARSE_DEPTH
  /\ last.bridge > 0 => last.peak = 1

\* a committed annotation with sub-parses nested as deep as MAX_PARSE_DEPTH,
\* in a later document
C29_Witness ==
  /\ IsCall /\ last.ret /\ ~last.silent
  /\ last.nest >= MAX_PARSE_DEPTH
  /\ last.peak = 1
  /\ state.id > 1
  /\ state.id \in DOMAIN parseDepthMap

\* among toks no annotation of kind c is opened inside an annotation of kind
\* c that is still open
NotInsideItself(toks, c) ==
  \A i, j \in 1..Len(toks) :
    (i < j /\ toks[i].type = c.type \o "_open" /\ toks[j].type = c.type \o "_open") =>
      \E k \in (i + 1)..(j - 1) : toks[k].type = c.type \o "_close"

(***************************************************************************)
(* C30: the closing marker matched is always the first occurrence after    *)
(* the opening marker, so the extracted span never contains the kind's own *)
(* closing marker; consequently, along any chain of nested sub-parses each *)
(* annotation kind occurs at most once (no annotation is emitted inside an *)
(* annotation of its own kind) and the chain has length at most 4.         *)
(***************************************************************************)
C30_FirstClosingMarkerWins ==
  /\ \A c \in Configs :
       (OpenedBy(c) /\ last.ret) =>
         /\ ClosesAt(c, last.endPos)
         /\ IndexOf(SpanTo(c, last.endPos), c.closeMarker, 0) = -1
  /\ \A c \in Configs : NotInsideItself(Appended, c)
  /\ last.nest <= Cardinality(Configs)

\* a committed note with an annotation sub-parsed in its body and another
\* closing marker of its own kind further on in the text
C30_Witness ==
  \E c \in Configs :
    /\ OpenedBy(c) /\ last.ret /\ ~last.silent
    /\ last.nest >= 2
    /\ \E i \in (last.endPos + Len(c.closeMarker))..Len(last.entry.src) :
         OccursAt(last.entry.src, c.closeMarker, i)

====
